---- MODULE Spec2Model ----
(***************************************************************************)
(* Model of the nuxt-scroll-restoration runtime plugin                     *)
(* (src/unnamed/part_000, lines 169-346): the wrapped history.replaceState *)
(* and history.pushState, the app:mounted / page:finish /                  *)
(* app:suspense:resolve hooks, the popstate and beforeunload listeners and *)
(* the polling loop tryToScrollTo, together with the browser pieces they   *)
(* act on (session history, viewport, document geometry, timers, clock).   *)
(***************************************************************************)
EXTENDS Integers, Sequences, FiniteSets, TLC

\* ------------------------------------------------------------------------
\* Bounds of the model
\* ------------------------------------------------------------------------
MaxCoord == 1       \* scroll offsets and reachable extents range over 0..MaxCoord
MaxTime == 5        \* the clock stops advancing at MaxTime
MaxEntries == 2     \* length of the session history
MaxAttempts == 2    \* restoration attempts scheduled in one behaviour
MaxLag == 1         \* a due timer fires at most MaxLag clock units late

\* Configuration (config.scrollRestorationTimeoutMs || 3000,
\* config.tryToScrollIntervalMs || 50), in clock units of the model.
SCROLL_RESTORATION_TIMEOUT_MS == 3
TRY_TO_SCROLL_INTERVAL_MS == 2

\* Window size; the document is never narrower than the window minus the
\* scrollbar, so the real maximum scroll offset is never negative.
innerWidth == 2
innerHeight == 2

\* ------------------------------------------------------------------------
\* JavaScript values
\* ------------------------------------------------------------------------
\* Property values are integers; two negative integers stand for the values
\* that are not finite numbers.
Undefined == 0 - 1
NaNv == 0 - 2

Coords == 0..MaxCoord

\* Number.isFinite(v)
IsFinite(v) == v >= 0

\* null, and the object without own properties ({})
NullState == [null |-> 0]
EmptyObj == [k \in {} |-> 0]

IsNull(s) == DOMAIN s = {"null"}

\* own enumerable properties of a value (none for null)
Props(s) == IF IsNull(s) THEN {} ELSE DOMAIN s

\* s.k for an object s: undefined when s has no such property
Get(s, k) == IF k \in Props(s) THEN s[k] ELSE Undefined

\* Object.assign(target, source, patch) for objects or null sources: the
\* properties of target, overwritten by those of source, then by patch
ObjectAssign(target, source, patch) ==
  [k \in Props(target) \cup Props(source) \cup Props(patch) |->
     IF k \in Props(patch) THEN patch[k]
     ELSE IF k \in Props(source) THEN source[k]
     ELSE target[k]]

ScrollFields == {"__scrollX", "__scrollY"}

\* the state objects callers and history entries hand to the plugin
CallerStates ==
  { NullState,
    [k |-> 1, __scrollX |-> NaNv, __scrollY |-> 1] }

\* the states passed where the timing varies
FewStates == { [k |-> 1] }

\* (variant: typeof === "number" in place of Number.isFinite, so that NaN
\* passes)
HasNumericPosition(s) ==
  /\ ~IsNull(s)
  /\ Get(s, "__scrollX") # Undefined
  /\ Get(s, "__scrollY") # Undefined

\* state && Number.isFinite(state.__scrollX) && Number.isFinite(state.__scrollY)
HasFinitePosition(s) ==
  /\ ~IsNull(s)
  /\ IsFinite(Get(s, "__scrollX"))
  /\ IsFinite(Get(s, "__scrollY"))

Pos(px, py) == [x |-> px, y |-> py]
NoPos == Pos(Undefined, Undefined)

\* the scroll pair stored in a state (undefined components for null)
StoredPos(s) == Pos(Get(s, "__scrollX"), Get(s, "__scrollY"))

Min(a, b) == IF a <= b THEN a ELSE b


\* ------------------------------------------------------------------------
\* State
\* ------------------------------------------------------------------------
VARIABLES
  phase,             \* "boot": page loaded, plugin not yet run; "run": after it
  supported,         \* "scrollRestoration" in window.history
  scrollRestoration, \* window.history.scrollRestoration ("absent" without it)
  wrapped,           \* history.replaceState / pushState are the plugin's wrappers
  hooked,            \* the hooks and listeners of the plugin are registered
  entries,           \* session history: the state object of each entry
  cur,               \* index of the current entry (window.history.state = entries[cur])
  poppedState,       \* let poppedState
  isMounted,         \* let isMounted
  scroll,            \* window.scrollX, window.scrollY
  documentWidth,     \* Math.max(body.scrollWidth, ..., html.offsetWidth)
  documentHeight,    \* Math.max(body.scrollHeight, ..., html.offsetHeight)
  nativeBar,         \* thickness of the browser's scrollbar
  scrollBarWidth,    \* let scrollBarWidth
  now,               \* Date.now()
  timers,            \* pending setTimeout callbacks, in the order they were started
  timeoutHandle,     \* let timeoutHandle
  attempts,          \* history: the restoration attempts (one per scheduled tryToScrollTo chain)
  lastPop,           \* history: the scroll pair of the last popstate event since the last navigation-finished trigger
  reloadPos,         \* history: the viewport stamped by the last reload, while only pre-mount overwrites followed it
  ev                 \* history: the last handler run, its argument and what it did

vars == << phase, supported, scrollRestoration, wrapped, hooked, entries, cur,
           poppedState, isMounted, scroll, documentWidth, documentHeight,
           nativeBar, scrollBarWidth, now, timers, timeoutHandle, attempts,
           lastPop, reloadPos, ev >>

AttemptIds == 1..MaxAttempts

NoHandle == [att |-> 0, due |-> 0]
NoAttempt == [st |-> "unused", x |-> 0, y |-> 0, latestTimeToTry |-> 0,
              scrolls |-> 0]

\* ev: name of the handler, the state object it was given and that object
\* after the call, whether it threw, the attempt it scheduled or ran, the
\* arguments of the scrollTo call it made, and whether it repeats the call
\* before it (same handler, same argument, nothing in between)
Ev(name, arg, after, threw, att, sc) ==
  [name |-> name, arg |-> arg, after |-> after, threw |-> threw, att |-> att,
   sc |-> sc, again |-> (ev.name = name /\ name = "replaceState" /\ ev.arg = arg)]

\* a handler without state argument, attempt or scroll call
Plain(name) == Ev(name, NullState, NullState, FALSE, 0, NoPos)

\* window.history.state
HistoryState == entries[cur]

\* the largest scroll offsets the browser allows for the current document
MaxScrollX(w) == w + nativeBar - innerWidth
MaxScrollY(h) == h + nativeBar - innerHeight

DocWidths == (innerWidth - nativeBar)..(innerWidth - nativeBar + MaxCoord)
DocHeights == (innerHeight - nativeBar)..(innerHeight - nativeBar + MaxCoord)

\* window.scrollTo(x, y): the browser clamps to the scrollable range
ScrollTo(x, y) ==
  Pos(Min(x, MaxScrollX(documentWidth)), Min(y, MaxScrollY(documentHeight)))

Init ==
  /\ phase = "boot"
  /\ supported \in BOOLEAN
  /\ scrollRestoration = IF supported THEN "auto" ELSE "absent"
  /\ wrapped = FALSE
  /\ hooked = FALSE
  /\ entries \in {<<NullState>>, <<[k |-> 1]>>}
  /\ cur = 1
  /\ poppedState = NullState
  /\ isMounted = FALSE
  /\ scroll = Pos(0, 0)
  /\ nativeBar \in {0, 1}
  /\ documentWidth = innerWidth - nativeBar
  /\ documentHeight = innerHeight - nativeBar
  /\ scrollBarWidth = 0
  /\ now = 0
  /\ timers = << >>
  /\ timeoutHandle = NoHandle
  /\ attempts = [a \in AttemptIds |-> NoAttempt]
  /\ lastPop = NoPos
  /\ reloadPos = NoPos
  /\ ev = [name |-> "load", arg |-> NullState, after |-> NullState,
           threw |-> FALSE, att |-> 0, sc |-> NoPos, again |-> FALSE]

\* ------------------------------------------------------------------------
\* defineNuxtPlugin callback: capability check and wiring
\* ------------------------------------------------------------------------
\* (variant: the capability check is missing)
UnsupportedNever(sup) == FALSE

\* typeof window === 'undefined' || !("scrollRestoration" in window.history)
Unsupported(sup) == ~sup

Setup ==
  /\ phase = "boot"
  /\ phase' = "run"
  /\ IF Unsupported(supported)
     THEN UNCHANGED << scrollRestoration, wrapped, hooked >>
     ELSE /\ scrollRestoration' = "manual"
          /\ wrapped' = TRUE
          /\ hooked' = TRUE
  /\ poppedState' = NullState
  /\ isMounted' = FALSE
  /\ scrollBarWidth' = 0
  /\ timeoutHandle' = NoHandle
  /\ ev' = Plain("setup")
  /\ UNCHANGED << supported, entries, cur, scroll, documentWidth,
                  documentHeight, nativeBar, now, timers, attempts,
                  lastPop, reloadPos >>

\* nuxtApp.hook("app:mounted", ...)
AppMounted ==
  /\ phase = "run"
  /\ isMounted' = IF hooked THEN TRUE ELSE isMounted
  /\ ev' = Plain("other")
  /\ UNCHANGED << phase, supported, scrollRestoration, wrapped, hooked,
                  entries, cur, poppedState, scroll, documentWidth,
                  documentHeight, nativeBar, scrollBarWidth, now, timers,
                  timeoutHandle, attempts,
                  lastPop, reloadPos >>


\* ------------------------------------------------------------------------
\* History: the native primitives and the plugin's wrappers
\* ------------------------------------------------------------------------
\* originalReplaceState.apply(window.history, [s, ...]): the browser stores a
\* structured clone of s in the current entry (of these plain values, an
\* equal value)
OriginalReplaceState(es, c, s) == [es EXCEPT ![c] = s]

\* originalPushState.apply(window.history, [s, ...]): entries after the
\* current one are dropped and a new entry becomes current
OriginalPushState(es, c, s) == Append(SubSeq(es, 1, c), s)

\* { __scrollX: window.scrollX, __scrollY: window.scrollY }
LivePatch(sc) == [__scrollX |-> sc.x, __scrollY |-> sc.y]

\* (variant: the two fields are read crosswise)
KeptPatchSwapped(hs) ==
  [__scrollX |-> Get(hs, "__scrollY"), __scrollY |-> Get(hs, "__scrollX")]

\* { __scrollX: window.history.state.__scrollX,
\*   __scrollY: window.history.state.__scrollY }, of a non-null history.state
KeptPatch(hs) == [__scrollX |-> Get(hs, "__scrollX"), __scrollY |-> Get(hs, "__scrollY")]

\* (variant: Object.assign(state, patch), which writes into the caller's
\* object)
StampInPlace(state, patch) ==
  LET r == ObjectAssign(state, EmptyObj, patch)
  IN [newState |-> r, state |-> r]

\* Object.assign({}, state, patch): the new object, and the caller's object
\* after the call (it is only read)
Stamp(state, patch) ==
  [newState |-> ObjectAssign(EmptyObj, state, patch), state |-> state]

\* (variant: the live position is stamped before the app is mounted too)
UsesLivePositionAlways(mounted) == TRUE

\* the branch taken by the wrapper (if (isMounted) ... else ...)
UsesLivePosition(mounted) == mounted

\* window.history.replaceState = function (state, ...otherArgs): the entries
\* afterwards, the caller's object afterwards, and whether the call threw
\* (reading a property of a null history.state is a TypeError)
WrappedReplaceState(es, c, state, mounted, sc) ==
  IF UsesLivePosition(mounted)
  THEN LET r == Stamp(state, LivePatch(sc))
       IN [threw |-> FALSE, entries |-> OriginalReplaceState(es, c, r.newState),
           after |-> r.state]
  ELSE IF IsNull(es[c])
       THEN [threw |-> TRUE, entries |-> es, after |-> state]
       ELSE LET r == Stamp(state, KeptPatch(es[c]))
            IN [threw |-> FALSE, entries |-> OriginalReplaceState(es, c, r.newState),
                after |-> r.state]

\* history.replaceState(state, ...) as the page's code sees it
CallReplaceState(es, c, state, mounted, sc) ==
  IF wrapped
  THEN WrappedReplaceState(es, c, state, mounted, sc)
  ELSE [threw |-> FALSE, entries |-> OriginalReplaceState(es, c, state),
        after |-> state]

\* a caller (the router) calls history.replaceState(state, "")
ReplaceState(state) ==
  /\ phase = "run"
  /\ LET r == CallReplaceState(entries, cur, state, isMounted, scroll)
     IN /\ entries' = r.entries
        /\ ev' = Ev("replaceState", state, r.after, r.threw, 0, NoPos)
  /\ reloadPos' = IF isMounted THEN NoPos ELSE reloadPos
  /\ UNCHANGED << phase, supported, scrollRestoration, wrapped, hooked, cur,
                  poppedState, isMounted, scroll, documentWidth,
                  documentHeight, nativeBar, scrollBarWidth, now, timers,
                  timeoutHandle, attempts,
                  lastPop >>

\* (variant: the new entry is created without stamping the one left behind)
WrappedPushStateNoStamp(es, c, state, mounted, sc) ==
  [threw |-> FALSE, entries |-> OriginalPushState(es, c, state), cur |-> c + 1]

\* window.history.pushState = function (...args): first
\* window.history.replaceState(window.history.state, ""), then the native
\* pushState with the caller's arguments; a throw of the first call leaves
\* the history as it was
WrappedPushState(es, c, state, mounted, sc) ==
  LET r == WrappedReplaceState(es, c, es[c], mounted, sc)
  IN IF r.threw
     THEN [threw |-> TRUE, entries |-> es, cur |-> c]
     ELSE [threw |-> FALSE, entries |-> OriginalPushState(r.entries, c, state),
           cur |-> c + 1]

\* a caller (the router) calls history.pushState(state, "", url)
PushState(state) ==
  /\ phase = "run"
  /\ cur < MaxEntries
  /\ LET r == IF wrapped
              THEN WrappedPushState(entries, cur, state, isMounted, scroll)
              ELSE [threw |-> FALSE,
                    entries |-> OriginalPushState(entries, cur, state),
                    cur |-> cur + 1]
     IN /\ entries' = r.entries
        /\ cur' = r.cur
        /\ ev' = Ev("pushState", state, state, r.threw, 0, NoPos)
  /\ reloadPos' = NoPos
  /\ UNCHANGED << phase, supported, scrollRestoration, wrapped, hooked,
                  poppedState, isMounted, scroll, documentWidth,
                  documentHeight, nativeBar, scrollBarWidth, now, timers,
                  timeoutHandle, attempts,
                  lastPop >>

\* (variant: poppedState = event.state without the test)
OnPopStateAlways(popped, eventState) == eventState

\* const onPopState = (event) => ...: the value of poppedState afterwards
OnPopState(popped, eventState) ==
  IF HasFinitePosition(eventState) THEN eventState ELSE popped

\* the user goes back or forward to entry i; the browser makes it current
\* and dispatches popstate with that entry's state
PopState(i) ==
  /\ phase = "run"
  /\ i \in 1..Len(entries)
  /\ i # cur
  /\ cur' = i
  /\ poppedState' = IF hooked THEN OnPopState(poppedState, entries[i])
                    ELSE poppedState
  /\ ev' = Plain("popstate")
  /\ lastPop' = IF HasFinitePosition(entries[i]) THEN StoredPos(entries[i])
                ELSE NoPos
  /\ reloadPos' = NoPos
  /\ UNCHANGED << phase, supported, scrollRestoration, wrapped, hooked,
                  entries, isMounted, scroll, documentWidth, documentHeight,
                  nativeBar, scrollBarWidth, now, timers, timeoutHandle,
                  attempts >>


\* ------------------------------------------------------------------------
\* Navigation finished: page:finish and app:suspense:resolve
\* ------------------------------------------------------------------------
\* (variant: window.history.state || poppedState)
ResolveStateEntryFirst(popped, hs) == IF ~IsNull(hs) THEN hs ELSE popped

\* const state = poppedState || window.history.state
ResolveState(popped, hs) == IF ~IsNull(popped) THEN popped ELSE hs

\* the attempts scheduled so far
Used == {a \in AttemptIds : attempts[a].st # "unused"}

\* setTimeout(() => tryToScrollTo({x, y, latestTimeToTry}), delay): the
\* pending callback with the scrollTarget it closes over
Timer(a, kind, due, x, y, latest) ==
  [att |-> a, kind |-> kind, due |-> due, x |-> x, y |-> y,
   latestTimeToTry |-> latest]

\* Date.now() + SCROLL_RESTORATION_TIMEOUT_MS
Deadline(t) == t + SCROLL_RESTORATION_TIMEOUT_MS

\* const onPageFinish = (source) => ...
OnPageFinish(source) ==
  /\ phase = "run"
  /\ IF ~hooked
     THEN /\ ev' = Plain("pageFinish")
          /\ UNCHANGED << poppedState, scroll, timers, attempts >>
     ELSE LET state == ResolveState(poppedState, HistoryState)
              a == Cardinality(Used) + 1
          IN /\ poppedState' = NullState
             /\ IF HasFinitePosition(state)
                THEN /\ a \in AttemptIds
                     /\ timers' = Append(timers,
                                    Timer(a, "defer", now, Get(state, "__scrollX"),
                                          Get(state, "__scrollY"), Deadline(now)))
                     /\ attempts' = [attempts EXCEPT ![a] =
                                      [st |-> "deferred", x |-> Get(state, "__scrollX"),
                                       y |-> Get(state, "__scrollY"),
                                       latestTimeToTry |-> Deadline(now),
                                       scrolls |-> 0]]
                     /\ ev' = Ev("pageFinish", NullState, NullState, FALSE, a, NoPos)
                     /\ UNCHANGED scroll
                ELSE /\ scroll' = ScrollTo(0, 0)
                     /\ ev' = Ev("pageFinish", NullState, NullState, FALSE, 0, Pos(0, 0))
                     /\ UNCHANGED << timers, attempts >>
  /\ lastPop' = NoPos
  /\ reloadPos' = NoPos
  /\ UNCHANGED << phase, supported, scrollRestoration, wrapped, hooked,
                  entries, cur, isMounted, documentWidth, documentHeight,
                  nativeBar, scrollBarWidth, now, timeoutHandle >>

\* ------------------------------------------------------------------------
\* The polling loop
\* ------------------------------------------------------------------------
Remove(seq, i) == SubSeq(seq, 1, i - 1) \o SubSeq(seq, i + 1, Len(seq))

\* the delay a timer was started with
Delay(t) == IF t.kind = "defer" THEN 0 ELSE TRY_TO_SCROLL_INTERVAL_MS

\* (variant: the previous timer is not cleared)
ClearTimeoutKeeps(ts, h) == ts

\* clearTimeout(handle): the pending poll timer the handle names, if any, is
\* dropped
IsHandle(t, h) == t.kind = "poll" /\ t.att = h.att /\ t.due = h.due
ClearTimeout(ts, h) == SelectSeq(ts, LAMBDA t : ~IsHandle(t, h))

\* !scrollBarWidth: the run calls getScrollbarWidth(), the DOM probe
Probes(cached) == cached = 0

\* if (!scrollBarWidth) { scrollBarWidth = getScrollbarWidth(); }
MeasuredBar(cached, native) == IF Probes(cached) THEN native ELSE cached

\* (variant: || between the two axes)
FitsEitherAxis(w, h, bar, x, y) ==
  \/ w + bar - innerWidth >= x
  \/ h + bar - innerHeight >= y

\* documentWidth + scrollBarWidth - window.innerWidth >= scrollTarget.x &&
\* documentHeight + scrollBarWidth - window.innerHeight >= scrollTarget.y
Fits(w, h, bar, x, y) ==
  /\ w + bar - innerWidth >= x
  /\ h + bar - innerHeight >= y

\* (variant: the deadline is never tested)
ExpiredNever(t, latest) == FALSE

\* (variant: >= in place of >)
ExpiredAtDeadline(t, latest) == t >= latest

\* Date.now() > scrollTarget.latestTimeToTry
Expired(t, latest) == t > latest

\* an attempt that has no timer any more: how it ended and the scroll calls
\* it made
Ended(st, n) == [st |-> st, x |-> 0, y |-> 0, latestTimeToTry |-> 0,
                 scrolls |-> n]

\* the attempts whose pending timer is in ts
Pending(ts) == {ts[j].att : j \in 1..Len(ts)}

\* const tryToScrollTo = (scrollTarget) => ..., run by the timer at index i
TryToScrollTo(i) ==
  LET t == timers[i]
      cleared == ClearTimeout(Remove(timers, i), timeoutHandle)
      bar == MeasuredBar(scrollBarWidth, nativeBar)
      go == \/ Fits(documentWidth, documentHeight, bar, t.x, t.y)
            \/ Expired(now, t.latestTimeToTry)
      due == now + TRY_TO_SCROLL_INTERVAL_MS
      dropped == (Pending(timers) \ Pending(cleared)) \ {t.att}
      marked == [a \in AttemptIds |->
                   IF a \in dropped THEN Ended("cancelled", attempts[a].scrolls)
                   ELSE attempts[a]]
  IN /\ scrollBarWidth' = bar
     /\ IF go
        THEN /\ scroll' = ScrollTo(t.x, t.y)
             /\ timers' = cleared
             /\ attempts' = [marked EXCEPT ![t.att] =
                              Ended(IF Fits(documentWidth, documentHeight,
                                            bar, t.x, t.y)
                                    THEN "satisfied" ELSE "timedout",
                                    attempts[t.att].scrolls + 1)]
             /\ ev' = Ev(IF t.kind = "defer" THEN "begin" ELSE "poll",
                         NullState, NullState, FALSE, t.att, Pos(t.x, t.y))
             /\ UNCHANGED timeoutHandle
        ELSE /\ timers' = Append(cleared, Timer(t.att, "poll", due, t.x, t.y,
                                                t.latestTimeToTry))
             /\ timeoutHandle' = [att |-> t.att, due |-> due]
             /\ attempts' = [marked EXCEPT ![t.att] = [@ EXCEPT !.st = "polling"]]
             /\ ev' = Ev(IF t.kind = "defer" THEN "begin" ELSE "poll",
                         NullState, NullState, FALSE, t.att, NoPos)
             /\ UNCHANGED scroll

\* a timer may run once it is due and every timer started before it with a
\* delay not longer than its own has run
MayRun(i) ==
  /\ timers[i].due <= now
  /\ \A j \in 1..(i - 1) : Delay(timers[j]) > Delay(timers[i])

TimerFire(i) ==
  /\ phase = "run"
  /\ i \in 1..Len(timers)
  /\ MayRun(i)
  /\ TryToScrollTo(i)
  /\ UNCHANGED << phase, supported, scrollRestoration, wrapped, hooked,
                  entries, cur, poppedState, isMounted, documentWidth,
                  documentHeight, nativeBar, now,
                  lastPop, reloadPos >>

\* the clock advances; a due timer is run at most MaxLag late
Tick(limit) ==
  /\ now < limit
  /\ \A j \in 1..Len(timers) : now < timers[j].due + MaxLag
  /\ now' = now + 1
  /\ ev' = Plain("other")
  /\ UNCHANGED << phase, supported, scrollRestoration, wrapped, hooked,
                  entries, cur, poppedState, isMounted, scroll, documentWidth,
                  documentHeight, nativeBar, scrollBarWidth, timers,
                  timeoutHandle, attempts,
                  lastPop, reloadPos >>

\* ------------------------------------------------------------------------
\* The user and the page
\* ------------------------------------------------------------------------
\* the user scrolls the viewport
UserScroll(x, y) ==
  /\ phase = "run"
  /\ x \in 0..MaxScrollX(documentWidth)
  /\ y \in 0..MaxScrollY(documentHeight)
  /\ Pos(x, y) # scroll
  /\ scroll' = Pos(x, y)
  /\ ev' = Plain("other")
  /\ UNCHANGED << phase, supported, scrollRestoration, wrapped, hooked,
                  entries, cur, poppedState, isMounted, documentWidth,
                  documentHeight, nativeBar, scrollBarWidth, now, timers,
                  timeoutHandle, attempts,
                  lastPop, reloadPos >>

\* content is rendered or removed: the document's extents change and the
\* browser keeps the viewport inside the scrollable range
DocResize(w, h) ==
  /\ phase = "run"
  /\ w \in DocWidths
  /\ h \in DocHeights
  /\ << w, h >> # << documentWidth, documentHeight >>
  /\ documentWidth' = w
  /\ documentHeight' = h
  /\ scroll' = Pos(Min(scroll.x, MaxScrollX(w)), Min(scroll.y, MaxScrollY(h)))
  /\ ev' = Plain("other")
  /\ UNCHANGED << phase, supported, scrollRestoration, wrapped, hooked,
                  entries, cur, poppedState, isMounted, nativeBar,
                  scrollBarWidth, now, timers, timeoutHandle, attempts,
                  lastPop, reloadPos >>

\* (variant: the handler does not stamp)
OnBeforeUnloadIdle(es, c, mounted, sc) ==
  [threw |-> FALSE, entries |-> es, after |-> es[c]]

\* function onBeforeUnload(): window.history.replaceState(window.history.state, "")
OnBeforeUnload(es, c, mounted, sc) ==
  CallReplaceState(es, c, es[c], mounted, sc)

\* beforeunload is dispatched and the page stays (the unload is cancelled)
BeforeUnload ==
  /\ phase = "run"
  /\ LET r == IF hooked THEN OnBeforeUnload(entries, cur, isMounted, scroll)
              ELSE [threw |-> FALSE, entries |-> entries, after |-> HistoryState]
     IN /\ entries' = r.entries
        /\ ev' = Ev("beforeunload", NullState, NullState, r.threw, 0, NoPos)
  /\ reloadPos' = IF isMounted THEN NoPos ELSE reloadPos
  /\ UNCHANGED << phase, supported, scrollRestoration, wrapped, hooked, cur,
                  poppedState, isMounted, scroll, documentWidth,
                  documentHeight, nativeBar, scrollBarWidth, now, timers,
                  timeoutHandle, attempts,
                  lastPop >>

\* the user reloads: beforeunload is handled, the page and its timers are
\* discarded, the browser keeps the session history and loads the page
\* again, with the restoration mode and the history methods of a fresh page
Reload ==
  /\ phase = "run"
  /\ LET r == IF hooked THEN OnBeforeUnload(entries, cur, isMounted, scroll)
              ELSE [threw |-> FALSE, entries |-> entries, after |-> HistoryState]
     IN /\ entries' = r.entries
        /\ ev' = Ev("reload", NullState, NullState, r.threw, 0, NoPos)
  /\ phase' = "boot"
  /\ scrollRestoration' = IF supported THEN "auto" ELSE "absent"
  /\ wrapped' = FALSE
  /\ hooked' = FALSE
  /\ poppedState' = NullState
  /\ isMounted' = FALSE
  /\ scroll' = Pos(0, 0)
  /\ documentWidth' = innerWidth - nativeBar
  /\ documentHeight' = innerHeight - nativeBar
  /\ scrollBarWidth' = 0
  /\ timers' = << >>
  /\ timeoutHandle' = NoHandle
  /\ attempts' = [a \in AttemptIds |->
                    IF attempts[a].st \in {"deferred", "polling"}
                    THEN Ended("unloaded", attempts[a].scrolls)
                    ELSE attempts[a]]
  /\ lastPop' = NoPos
  /\ reloadPos' = IF hooked /\ isMounted THEN scroll ELSE NoPos
  /\ UNCHANGED << supported, cur, nativeBar, now >>

\* The history and the coordinator: every caller state, two history
\* entries, a document that grows in height only, within one clock unit
Next ==
  \/ Setup
  \/ AppMounted
  \/ \E s \in CallerStates : ReplaceState(s)
  \/ \E s \in CallerStates : PushState(s)
  \/ \E i \in 1..MaxEntries : PopState(i)
  \/ OnPageFinish("page:finish")
  \/ OnPageFinish("app:suspense:resolve")
  \/ \E i \in 1..MaxAttempts : TimerFire(i)
  \/ \E y \in Coords : UserScroll(0, y)
  \/ \E h \in DocHeights : DocResize(documentWidth, h)
  \/ BeforeUnload
  \/ Reload

InitHistory ==
  /\ Init
  /\ nativeBar = 1

Spec == InitHistory /\ [][Next]_vars

\* The scheduler: one history entry, one caller state, both axes of the
\* document, the clock up to MaxTime
InitSched ==
  /\ Init
  /\ supported
  /\ entries = <<[k |-> 1]>>

NextSched ==
  \/ Setup
  \/ AppMounted
  \/ \E s \in FewStates : ReplaceState(s)
  \/ OnPageFinish("page:finish")
  \/ OnPageFinish("app:suspense:resolve")
  \/ \E i \in 1..MaxAttempts : TimerFire(i)
  \/ Tick(MaxTime)
  \/ \E x \in Coords, y \in Coords : UserScroll(x, y)
  \/ \E w \in DocWidths, h \in DocHeights : DocResize(w, h)
  \/ BeforeUnload
  \/ Reload

SpecSched == InitSched /\ [][NextSched]_vars


\* The scheduler under fair timers and an advancing clock: a pending timer
\* callback is eventually run and time passes; the triggers come while the
\* last poll of the attempt they schedule still fits the clock of the model
InitLive ==
  /\ Init
  /\ supported
  /\ nativeBar = 1
  /\ entries = <<[k |-> 1]>>

NextLive ==
  \/ Setup
  \/ AppMounted
  \/ \E s \in FewStates : ReplaceState(s)
  \/ /\ Deadline(now) + TRY_TO_SCROLL_INTERVAL_MS <= MaxTime
     /\ \E source \in {"page:finish", "app:suspense:resolve"} :
          OnPageFinish(source)
  \/ \E i \in 1..MaxAttempts : TimerFire(i)
  \/ Tick(MaxTime)
  \/ \E y \in Coords : UserScroll(0, y)
  \/ \E h \in DocHeights : DocResize(documentWidth, h)

SpecLive ==
  /\ InitLive
  /\ [][NextLive]_vars
  /\ WF_vars(Tick(MaxTime))
  /\ \A i \in 1..MaxAttempts : WF_vars(TimerFire(i))


\* ------------------------------------------------------------------------
\* Properties
\* ------------------------------------------------------------------------
\* the target an attempt was scheduled with
TargetOf(a) == Pos(attempts[a].x, attempts[a].y)

\* the timers of attempt a among ts
TimersOf(ts, a) == {j \in 1..Len(ts) : ts[j].att = a}

\* the target lies within the reachable extents: reachable width >= x and
\* reachable height >= y, the reachable extent being the document's extent
\* minus the window's plus the thickness of the scrollbar
Reachable(x, y) ==
  /\ documentWidth - innerWidth + nativeBar >= x
  /\ documentHeight - innerHeight + nativeBar >= y

\* the fields of a state other than the two reserved ones
OtherFields(s) == [k \in Props(s) \ ScrollFields |-> s[k]]

\* both components of a scroll pair are finite numbers
FinitePair(p) == IsFinite(p.x) /\ IsFinite(p.y)

\* a handler ran the wrapped overwrite-current-entry on the current entry
Overwrote(e) == e.name \in {"replaceState", "pushState", "beforeunload", "reload"}

\* C1 Single active attempt: when tryToScrollTo is entered for a new attempt
\* while another attempt is polling, that attempt loses its timer; an
\* attempt that lost its timer never gets one again and makes no scroll
\* call; at most one poll timer is pending.
C1_SingleActiveAttempt ==
  [][ /\ \A a \in AttemptIds :
           /\ (attempts[a].st = "polling" /\ ev'.name = "begin" /\ ev'.att # a)
                => (attempts'[a].st = "cancelled" /\ TimersOf(timers', a) = {})
           /\ attempts[a].st = "cancelled"
                => (attempts'[a] = attempts[a] /\ TimersOf(timers', a) = {})
      /\ Cardinality({j \in 1..Len(timers') : timers'[j].kind = "poll"}) <= 1
    ]_vars

C1_Witness ==
  \E a, b \in AttemptIds :
    /\ a # b
    /\ attempts[a].st = "cancelled"
    /\ attempts[a].scrolls = 0
    /\ attempts[b].st \in {"satisfied", "timedout"}
    /\ attempts[b].scrolls = 1

\* C2 Back/forward precedence: a navigation-finished trigger that follows a
\* popstate event carrying the finite pair P schedules an attempt whose
\* target is P, whatever the current entry stores, and scrolls nowhere else.
C2_BackForwardPrecedence ==
  [][ (ev'.name = "pageFinish" /\ hooked /\ lastPop # NoPos)
        => /\ ev'.att # 0
           /\ ev'.sc = NoPos
           /\ Pos(attempts'[ev'.att].x, attempts'[ev'.att].y) = lastPop
           /\ \E j \in TimersOf(timers', ev'.att) :
                Pos(timers'[j].x, timers'[j].y) = lastPop
    ]_vars

C2_Witness ==
  /\ ev.name = "pageFinish"
  /\ ev.att # 0
  /\ attempts[ev.att].st = "deferred"
  /\ HasFinitePosition(HistoryState)
  /\ TargetOf(ev.att) # StoredPos(HistoryState)

C4_PreMountProtection ==
  [][ (Overwrote(ev') /\ wrapped /\ ~isMounted)
        => StoredPos(entries'[cur]) = StoredPos(entries[cur])
    ]_vars

C4_Witness ==
  /\ ev.name = "replaceState"
  /\ wrapped
  /\ ~isMounted
  /\ ~ev.threw
  /\ HasFinitePosition(HistoryState)
  /\ StoredPos(HistoryState) # scroll
  /\ StoredPos(HistoryState) # StoredPos(ev.arg)

\* C5 Non-destructive merge: the state the wrapper hands to the native
\* replaceState has the fields of the state it was given, with their values,
\* apart from __scrollX and __scrollY, mounted or not; the caller's object is
\* the same after the call.
C5_NonDestructiveMerge ==
  [][ /\ (ev'.name = "replaceState" /\ ~ev'.threw)
           => /\ OtherFields(entries'[cur]) = OtherFields(ev'.arg)
              /\ ev'.after = ev'.arg
      /\ (ev'.name \in {"pushState", "beforeunload", "reload"} /\ ~ev'.threw)
           => OtherFields(entries'[cur]) = OtherFields(entries[cur])
    ]_vars

C5_Witness ==
  /\ ev.name = "replaceState"
  /\ wrapped
  /\ isMounted
  /\ "k" \in Props(ev.arg)
  /\ "k" \in Props(HistoryState)
  /\ StoredPos(HistoryState) # StoredPos(ev.arg)
  /\ StoredPos(HistoryState) = scroll
  /\ scroll # Pos(0, 0)


\* C6 Reachability satisfaction: a poll made no later than the deadline
\* scrolls exactly when the target is reachable in both axes, so the scroll
\* call comes at the first such poll and at no earlier one; the call is made
\* with the target, it is the attempt's only one and leaves no timer; a
\* poll that does not scroll leaves exactly one timer for the attempt.
C6_ReachabilitySatisfaction ==
  [][ ev'.name \in {"begin", "poll"}
        => LET a == ev'.att
               T == attempts[a]
           IN /\ T.st \in {"deferred", "polling"}
              /\ T.scrolls = 0
              /\ now <= T.latestTimeToTry
                   => ((ev'.sc # NoPos) <=> Reachable(T.x, T.y))
              /\ ev'.sc # NoPos
                   => /\ ev'.sc = Pos(T.x, T.y)
                      /\ attempts'[a].scrolls = 1
                      /\ TimersOf(timers', a) = {}
              /\ ev'.sc = NoPos
                   => /\ attempts'[a] = [T EXCEPT !.st = "polling"]
                      /\ Cardinality(TimersOf(timers', a)) = 1
    ]_vars

C6_Witness ==
  /\ ev.name = "poll"
  /\ attempts[ev.att].st = "satisfied"
  /\ attempts[ev.att].scrolls = 1
  /\ ev.sc = scroll
  /\ ev.sc.y > 0
  /\ now <= SCROLL_RESTORATION_TIMEOUT_MS

C8_ReloadRoundTrip ==
  [][ /\ (ev'.name \in {"beforeunload", "reload"} /\ hooked /\ isMounted)
           => StoredPos(entries'[cur]) = scroll
      /\ (ev'.name = "pageFinish" /\ reloadPos # NoPos)
           => /\ ev'.att # 0
              /\ Pos(attempts'[ev'.att].x, attempts'[ev'.att].y) = reloadPos
              /\ \E j \in TimersOf(timers', ev'.att) :
                   Pos(timers'[j].x, timers'[j].y) = reloadPos
    ]_vars

C8_Witness ==
  /\ ev.name = "pageFinish"
  /\ hooked
  /\ ~isMounted
  /\ ev.att # 0
  /\ attempts[ev.att].st = "deferred"
  /\ TargetOf(ev.att) = StoredPos(HistoryState)
  /\ TargetOf(ev.att) # Pos(0, 0)
  /\ scroll = Pos(0, 0)

\* C9 Stamp idempotence: an overwrite call that repeats the call before it
\* (same state argument, viewport unchanged, nothing in between) leaves the
\* whole history as the first call stored it and ends as the first did,
\* mounted or not.
C9_StampIdempotence ==
  [][ (ev'.name = "replaceState" /\ ev'.again)
        => /\ entries' = entries
           /\ ev'.threw = ev.threw
           /\ ev'.after = ev.after
    ]_vars

C9_Witness ==
  /\ ev.name = "replaceState"
  /\ ev.again
  /\ wrapped
  /\ ~isMounted
  /\ ~ev.threw
  /\ HasFinitePosition(HistoryState)
  /\ Get(HistoryState, "__scrollX") # Get(HistoryState, "__scrollY")
  /\ StoredPos(HistoryState) # scroll

\* C10 Unsupported environment: without the scrollRestoration attribute the
\* mode stays untouched, the history methods stay the native ones, no hook
\* or listener runs, no timer is ever pending, no handler scrolls, and the
\* history changes only as the native methods change it.
C10_UnsupportedNoOp ==
  [][ ~supported
        => /\ scrollRestoration' = "absent"
           /\ ~wrapped'
           /\ ~hooked'
           /\ ~isMounted'
           /\ IsNull(poppedState')
           /\ timers' = << >>
           /\ attempts' = attempts
           /\ ev'.sc = NoPos
           /\ ev'.att = 0
           /\ ~ev'.threw
           /\ ev'.name \in {"pageFinish", "popstate", "beforeunload", "setup"}
                => scroll' = scroll
           /\ ev'.name = "replaceState"
                => entries' = [entries EXCEPT ![cur] = ev'.arg]
           /\ ev'.name = "pushState"
                => entries' = Append(SubSeq(entries, 1, cur), ev'.arg)
           /\ ev'.name \notin {"replaceState", "pushState"}
                => entries' = entries
    ]_vars

C10_Witness ==
  /\ ~supported
  /\ phase = "run"
  /\ ev.name = "pageFinish"
  /\ scroll # Pos(0, 0)
  /\ Len(entries) = 2
  /\ ~IsNull(HistoryState)

\* C11 as stated: a call of the wrapped replaceState or pushState never
\* throws (the native methods of the model never do), whether the app is
\* mounted or not and whether history.state is an object or null.
C11_NoNewFailureSurface ==
  (ev.name \in {"replaceState", "pushState"} /\ wrapped) => ~ev.threw

\* C12 Stamp before commit: after every pushState through the wrapper while
\* mounted, the entry left behind stores the viewport's offsets of the
\* moment of the call, it keeps its other fields, and the new entry is the
\* current one.
C12_StampBeforeCommit ==
  (ev.name = "pushState" /\ wrapped /\ isMounted)
    => /\ ~ev.threw
       /\ cur > 1
       /\ cur = Len(entries)
       /\ StoredPos(entries[cur - 1]) = scroll

C12_Witness ==
  /\ ev.name = "pushState"
  /\ wrapped
  /\ isMounted
  /\ cur = 2
  /\ scroll # Pos(0, 0)
  /\ StoredPos(entries[1]) = scroll
  /\ IsNull(HistoryState)

\* C13 as stated: once a beforeunload event or a navigation-finished trigger
\* has been handled, no poll timer (of an attempt begun before it) is
\* pending.
C13_ImplicitCancellation ==
  (ev.name \in {"beforeunload", "pageFinish"} /\ hooked)
    => \A j \in 1..Len(timers) : timers[j].kind # "poll"

\* C14 as stated: a navigation-finished trigger that repeats the one before
\* it (nothing in between) and schedules an attempt has the target of the
\* attempt the first trigger scheduled, so that the attempt applied last has
\* the position the first trigger alone would have applied.
C14_PageFinishIdempotent ==
  [][ (ev.name = "pageFinish" /\ ev'.name = "pageFinish" /\ hooked
         /\ ev'.att # 0)
        => /\ ev.att # 0
           /\ Pos(attempts'[ev'.att].x, attempts'[ev'.att].y) = TargetOf(ev.att)
    ]_vars

\* C15 The popstate handler only stages: it makes no scroll call, writes no
\* history state, starts or cancels no timer and leaves isMounted alone;
\* poppedState becomes the event's state when that state is an object with
\* two finite scroll fields, and stays what it was otherwise.
C15_PopStateOnlyStages ==
  [][ (ev'.name = "popstate" /\ hooked)
        => /\ scroll' = scroll
           /\ entries' = entries
           /\ timers' = timers
           /\ timeoutHandle' = timeoutHandle
           /\ attempts' = attempts
           /\ isMounted' = isMounted
           /\ scrollBarWidth' = scrollBarWidth
           /\ ev'.sc = NoPos
           /\ poppedState' = IF /\ ~IsNull(entries[cur'])
                                /\ FinitePair(StoredPos(entries[cur']))
                             THEN entries[cur']
                             ELSE poppedState
    ]_vars

C15_Witness ==
  /\ ev.name = "popstate"
  /\ hooked
  /\ ~FinitePair(StoredPos(HistoryState))
  /\ ~IsNull(poppedState)
  /\ poppedState # HistoryState

\* C16 Every attempt terminates: with timers that fire and a clock that
\* advances, an attempt that is scheduled or polling eventually has made its
\* one scroll call, satisfied or timed out, with no timer left, unless a
\* later attempt began and cancelled it, however the document changes.
C16_EveryAttemptTerminates ==
  \A a \in AttemptIds :
    (attempts[a].st \in {"deferred", "polling"})
      ~> \/ /\ attempts[a].st \in {"satisfied", "timedout"}
            /\ attempts[a].scrolls = 1
            /\ TimersOf(timers, a) = {}
         \/ /\ attempts[a].st = "cancelled"
            /\ \E b \in AttemptIds : b > a /\ attempts[b].st \notin {"unused", "deferred"}

C16_Witness ==
  /\ timers = << >>
  /\ attempts[1].st = "cancelled"
  /\ attempts[2].st = "timedout"
  /\ attempts[2].scrolls = 1
  /\ scroll.y < 1

\* C17 as stated: after every pushState through the wrapper the new entry is
\* the current and last one and its state is the caller's state; the
\* entries before the one left behind are untouched and the one left behind
\* keeps its fields other than the two scroll fields.
C17_PushStateDelegatesUnchanged ==
  [][ (ev'.name = "pushState" /\ wrapped)
        => /\ cur' = cur + 1
           /\ Len(entries') = cur'
           /\ entries'[cur'] = ev'.arg
           /\ \A i \in 1..(cur - 1) : entries'[i] = entries[i]
           /\ OtherFields(entries'[cur]) = OtherFields(entries[cur])
    ]_vars

\* C18 as stated: a run of tryToScrollTo that comes after an earlier run of
\* the same page (one that left its timer handle) does not call the DOM
\* probe again, whatever the thickness measured.
C18_ScrollbarMeasuredOnce ==
  [][ (ev'.name \in {"begin", "poll"} /\ timeoutHandle # NoHandle)
        => ~Probes(scrollBarWidth)
    ]_vars

\* C19 as stated: a navigation-finished trigger takes its target from the
\* state of the latest popstate event since the trigger before it, if that
\* state has a finite pair, and from the current entry otherwise (the
\* position is (0, 0) if the entry has none): never from an earlier popstate
\* event.
C19_StalePoppedStateNeverApplied ==
  [][ (ev'.name = "pageFinish" /\ hooked)
        => LET from == IF lastPop # NoPos THEN lastPop
                       ELSE StoredPos(HistoryState)
           IN IF FinitePair(from)
              THEN /\ ev'.att # 0
                   /\ Pos(attempts'[ev'.att].x, attempts'[ev'.att].y) = from
              ELSE IF ev'.att = 0
                   THEN ev'.sc = Pos(0, 0)
                   ELSE Pos(attempts'[ev'.att].x, attempts'[ev'.att].y) = Pos(0, 0)
    ]_vars

\* an attempt is scheduled or polling and its target is the finite pair the
\* current entry stores
PendingForEntry ==
  /\ FinitePair(StoredPos(HistoryState))
  /\ \E a \in AttemptIds :
       /\ attempts[a].st \in {"deferred", "polling"}
       /\ TargetOf(a) = StoredPos(HistoryState)

\* C20 as stated: while an attempt is pending for the current entry's
\* position, app:mounted, an overwrite of the current entry and a timer
\* callback each leave the position the entry stores as it is, mounted or
\* not.
C20_PendingPositionKept_AsStated ==
  [][ (PendingForEntry
         /\ ev'.name \in {"other", "replaceState", "beforeunload", "begin",
                          "poll"})
        => StoredPos(entries'[cur']) = StoredPos(entries[cur])
    ]_vars

\* C20 amended: while an attempt is pending for the current entry's position
\* and the app is not mounted, app:mounted, an overwrite of the current
\* entry and a timer callback each leave the position the entry stores as it
\* is.
C20_PendingPositionKept ==
  [][ (PendingForEntry /\ ~isMounted
         /\ ev'.name \in {"other", "replaceState", "beforeunload", "begin",
                          "poll"})
        => StoredPos(entries'[cur']) = StoredPos(entries[cur])
    ]_vars

C20_Witness ==
  /\ ev.name = "replaceState"
  /\ ~ev.threw
  /\ hooked
  /\ ~isMounted
  /\ PendingForEntry
  /\ StoredPos(HistoryState) # scroll
  /\ StoredPos(HistoryState) # StoredPos(ev.arg)
  /\ \E a \in AttemptIds : attempts[a].st = "polling"

====
